---- MODULE Spec2Model ----
(***************************************************************************)
(* Minimal Notes: the App component of notes_frontend/src/App.js, the four *)
(* Supabase wrappers it calls, the remote `notes` table they act on, and   *)
(* the module-level initialisation of the Supabase client.                 *)
(*                                                                         *)
(* Every asynchronous handler is split at its `await`: one action issues   *)
(* the request (the code before the await, with the values its closure     *)
(* captures), one action per request kind is the remote store serving it,  *)
(* and one action is the continuation that handles the response.  Requests *)
(* are served, and responses handled, in any order.                        *)
(***************************************************************************)
EXTENDS Integers, Sequences, FiniteSets, Bags

VARIABLES
    table,        \* remote `notes` table: a set of rows
    nextId,       \* next id the store assigns
    clock,        \* the client's Date.now(), as a counter
    notes,        \* useState([])    App.js:90
    selectedId,   \* useState(null)  App.js:91   (NoId models null)
    editingNote,  \* useState(null)  App.js:92
    loading,      \* useState(true)  App.js:93
    saving,       \* useState(false) App.js:94
    reqs,         \* bag of requests in flight: sent, or answered and not yet handled
    last,         \* history: the last step of the component, and whether it raised an alert
    lastResp,     \* history: per id, the row of the last handled successful response
    birth,        \* history: per id, the created_at the store assigned at insert
    writes,       \* history: number of create, save and delete requests sent so far
    failed,       \* history: some request so far was answered with an error
    env,          \* process.env: the four variables supabaseClient.js reads
    client        \* the module supabaseClient.js: not yet evaluated, thrown, or exported

vars == <<table, nextId, clock, notes, selectedId, editingNote, loading, saving,
          reqs, last, lastResp, birth, writes, failed, env, client>>

appVars == <<table, nextId, clock, notes, selectedId, editingNote, loading, saving,
             reqs, last, lastResp, birth, writes, failed>>

----------------------------------------------------------------------------
(* Bounds *)

MaxTime == 1        \* last value of the client clock
MaxWrites == 2      \* create, save and delete requests sent in one run

----------------------------------------------------------------------------
(* Values *)

Null == [null |-> TRUE]     \* JavaScript null / undefined for a note
NoId == 0                   \* JavaScript null for selectedId (falsy)

Times == 0..MaxTime

\* Texts a user types into the title field and into the content field.
Texts(name) ==
    IF name = "title" THEN { <<"a">>, <<" ", "b", " ">> } ELSE { <<" ", "c">> }

Fields == {"title", "content"}

IsSpace(c) == c = " "

\* String.prototype.trim
RECURSIVE TrimLeft(_)
TrimLeft(s) ==
    IF s # <<>> /\ IsSpace(Head(s)) THEN TrimLeft(Tail(s)) ELSE s

RECURSIVE TrimRight(_)
TrimRight(s) ==
    IF s # <<>> /\ IsSpace(s[Len(s)]) THEN TrimRight(SubSeq(s, 1, Len(s) - 1)) ELSE s

Trim(s) == TrimRight(TrimLeft(s))

Row(id, title, content, created, updated) ==
    [id |-> id, title |-> title, content |-> content,
     created_at |-> created, updated_at |-> updated]

\* Array.prototype.find: the first element with the id, or undefined
RECURSIVE Find(_, _)
Find(list, id) ==
    IF list = <<>> THEN Null
    ELSE IF Head(list).id = id THEN Head(list)
    ELSE Find(Tail(list), id)

\* notes.map(n => n.id === id ? updated : n)
MapReplace(list, id, updated) ==
    [i \in 1..Len(list) |-> IF list[i].id = id THEN updated ELSE list[i]]

\* notes.filter(n => n.id !== id)
RECURSIVE FilterOut(_, _)
FilterOut(list, id) ==
    IF list = <<>> THEN <<>>
    ELSE IF Head(list).id # id THEN <<Head(list)>> \o FilterOut(Tail(list), id)
    ELSE FilterOut(Tail(list), id)

\* Faulty variant of Prepend: the new note goes to the end of the list
PrependAtEnd(note, prev) == prev \o <<note>>

\* [note, ...prev]
Prepend(note, prev) == <<note>> \o prev

\* .order('updated_at', { ascending: false }): every listing of the rows in
\* which updated_at never increases (rows with equal updated_at in any order)
OrderDesc(rows) ==
    { s \in [1..Cardinality(rows) -> rows] :
        /\ \A i, j \in 1..Cardinality(rows) : i # j => s[i] # s[j]
        /\ \A i, j \in 1..Cardinality(rows) : i < j => s[i].updated_at >= s[j].updated_at }

\* The rows of the `notes` table when the page is opened, and the ids the
\* store can assign afterwards.
InitTable == { Row(1, <<"a">>, <<>>, 0, 0), Row(2, <<"b">>, <<"c">>, 0, 0) }

Ids == 1..(Cardinality(InitTable) + MaxWrites)

----------------------------------------------------------------------------
(* Requests *)

Request(kind, arg, id, now) ==
    [kind |-> kind, phase |-> "sent", arg |-> arg, id |-> id, now |-> now, data |-> <<>>]

Answered(r, phase, data) == [r EXCEPT !.phase = phase, !.data = data]

InFlight == BagToSet(reqs)

Send(r) == reqs (+) SetToBag({r})

Take(r) == reqs (-) SetToBag({r})

Answer(r, phase, data) == Take(r) (+) SetToBag({Answered(r, phase, data)})

CanSend == writes < MaxWrites

\* `data && data[0]`
First(data) == IF data = <<>> THEN Null ELSE data[1]

\* op: the step; id: the note it was about; alert: it called alert();
\* dropped: the note whose unsaved edits a selection discarded (NoId: none)
Event(op, id, alert, dropped) ==
    [op |-> op, id |-> id, alert |-> alert, dropped |-> dropped]

----------------------------------------------------------------------------
(* supabaseClient.js *)

\* A variable of process.env: undefined, or a string
Undefined == <<>>
Str(s) == <<s>>

EnvNames == {"REACT_APP_SUPABASE_URL", "SUPABASE_URL",
             "REACT_APP_SUPABASE_ANON_KEY", "SUPABASE_ANON_KEY"}

EnvValues == {Undefined, Str(""), Str("x"), Str("y")}

\* JavaScript truthiness of an environment value: undefined and "" are falsy
Falsy(v) == v = Undefined \/ v = Str("")

\* Faulty variant of Or: a ?? b, which falls back only when a is undefined
Nullish(a, b) == IF a = Undefined THEN b ELSE a

\* a || b
Or(a, b) == IF Falsy(a) THEN b ELSE a

supabaseUrl == Or(env["REACT_APP_SUPABASE_URL"], env["SUPABASE_URL"])

supabaseAnonKey == Or(env["REACT_APP_SUPABASE_ANON_KEY"], env["SUPABASE_ANON_KEY"])

\* The module before it is evaluated, after its throw, and after its export;
\* calls counts the calls of createClient
Unloaded == [state |-> "unloaded", url |-> Undefined, key |-> Undefined, calls |-> 0]

Thrown == [state |-> "thrown", url |-> Undefined, key |-> Undefined, calls |-> 0]

CreateClient(url, key) ==
    [state |-> "created", url |-> url, key |-> key, calls |-> client.calls + 1]

\* `if (!supabaseUrl || !supabaseAnonKey)`
CredentialsMissing == Falsy(supabaseUrl) \/ Falsy(supabaseAnonKey)

\* The first import of the module evaluates it, once.
LoadClientModule ==
    /\ client.state = "unloaded"
    /\ client' = IF CredentialsMissing THEN Thrown
                 ELSE CreateClient(supabaseUrl, supabaseAnonKey)
    /\ UNCHANGED <<env, appVars>>

----------------------------------------------------------------------------
(* Initial state: the component has mounted and its effect has called      *)
(* loadNotes, which is waiting for the store.                              *)

AppInit ==
    /\ table = InitTable
    /\ nextId = Cardinality(InitTable) + 1
    /\ clock = 0
    /\ notes = <<>>
    /\ selectedId = NoId
    /\ editingNote = Null
    /\ loading = TRUE
    /\ saving = FALSE
    /\ reqs = SetToBag({Request("load", Null, NoId, 0)})
    /\ last = Event("mount", NoId, FALSE, NoId)
    /\ lastResp = [i \in Ids |-> Null]
    /\ birth = [i \in Ids |-> IF \E row \in InitTable : row.id = i
                              THEN (CHOOSE row \in InitTable : row.id = i).created_at
                              ELSE 0]
    /\ writes = 0
    /\ failed = FALSE

\* The page runs with both credentials set and the client exported.
Init ==
    /\ AppInit
    /\ env = [n \in EnvNames |-> Str("x")]
    /\ client = [state |-> "created", url |-> Str("x"), key |-> Str("x"), calls |-> 1]

\* Time passes on the client.
Tick ==
    /\ clock < MaxTime
    /\ clock' = clock + 1
    /\ UNCHANGED <<table, nextId, notes, selectedId, editingNote, loading, saving,
                   reqs, last, lastResp, birth, writes,
                   env, client, failed>>

----------------------------------------------------------------------------
(* The remote store *)

\* select('*').order('updated_at', {ascending: false})
StoreSelect(r) ==
    /\ r.kind = "load" /\ r.phase = "sent"
    /\ \E s \in OrderDesc(table) :
         reqs' = Answer(r, "ok", s)
    /\ UNCHANGED <<table, nextId, clock, notes, selectedId, editingNote, loading,
                   saving, last, lastResp, birth, writes,
                   env, client, failed>>

\* insert([{title, content, created_at, updated_at}]).select()
StoreInsert(r) ==
    /\ r.kind = "create" /\ r.phase = "sent"
    /\ LET row == [r.arg EXCEPT !.id = nextId] IN
         /\ table' = table \cup {row}
         /\ reqs' = Answer(r, "ok", <<row>>)
         /\ birth' = [birth EXCEPT ![nextId] = row.created_at]
    /\ nextId' = nextId + 1
    /\ UNCHANGED <<clock, notes, selectedId, editingNote, loading, saving, last, lastResp, writes,
                   env, client, failed>>

\* Faulty variant of Updated: the update also writes created_at, as the insert does
UpdatedWithCreatedAt(row, r) ==
    [row EXCEPT !.title = r.arg.title, !.content = r.arg.content,
                !.created_at = r.now, !.updated_at = r.now]

\* The row an update writes: title, content and updated_at only.
Updated(row, r) ==
    [row EXCEPT !.title = r.arg.title, !.content = r.arg.content, !.updated_at = r.now]

\* update({title, content, updated_at}).eq('id', note.id).select()
StoreUpdate(r) ==
    /\ r.kind = "update" /\ r.phase = "sent"
    /\ LET hit == {row \in table : row.id = r.arg.id} IN
         /\ table' = (table \ hit) \cup {Updated(row, r) : row \in hit}
         /\ \E s \in OrderDesc({Updated(row, r) : row \in hit}) :
              reqs' = Answer(r, "ok", s)
    /\ UNCHANGED <<nextId, clock, notes, selectedId, editingNote, loading, saving,
                   last, lastResp, birth, writes,
                   env, client, failed>>

\* delete().eq('id', id)
StoreDelete(r) ==
    /\ r.kind = "delete" /\ r.phase = "sent"
    /\ table' = {row \in table : row.id # r.id}
    /\ reqs' = Answer(r, "ok", <<>>)
    /\ UNCHANGED <<nextId, clock, notes, selectedId, editingNote, loading, saving,
                   last, lastResp, birth, writes,
                   env, client, failed>>

\* The request fails ({ error } is set): the table is not touched.
StoreError(r) ==
    /\ r.phase = "sent"
    /\ reqs' = Answer(r, "err", <<>>)
    /\ failed' = TRUE
    /\ UNCHANGED <<table, nextId, clock, notes, selectedId, editingNote, loading,
                   saving, last, lastResp, birth, writes,
                   env, client>>

----------------------------------------------------------------------------
(* The wrappers' return values *)

\* Faulty variant of LoadedList: after an error the list is left as it is
LoadedListKeepingOnError(r) == IF r.phase = "err" THEN notes ELSE r.data

\* loadNotes: the list it hands to setNotes
LoadedList(r) == IF r.phase = "err" THEN <<>> ELSE r.data

\* createNote: null after an error (and an alert), else data && data[0]
CreateNoteResult(r) == IF r.phase = "err" THEN Null ELSE First(r.data)

\* updateNote: null after an error (and an alert), else data && data[0]
UpdateNoteResult(r) == IF r.phase = "err" THEN Null ELSE First(r.data)

\* Faulty variant of DeleteNoteResult: the error is not turned into false
DeleteNoteAlwaysTrue(r) == TRUE

\* deleteNote: false after an error (and an alert), else true
DeleteNoteResult(r) == r.phase # "err"

\* lastResp after a response carrying `rows` has been handled
Confirmed(rows) ==
    [i \in Ids |-> IF \E k \in 1..Len(rows) : rows[k].id = i
                   THEN Find(rows, i) ELSE lastResp[i]]

----------------------------------------------------------------------------
(* The component *)

\* Faulty variant of LoadingAfterLoad: setLoading(false) sits in the else
\* branch, so that a failed list request leaves the flag set
LoadingAfterLoadInElse(r) == r.phase = "err"

\* The loading flag once loadNotes has handled its response: setLoading(false)
\* follows the if/else, whatever the response (App.js:29)
LoadingAfterLoad(r) == FALSE

\* loadNotes after its await (App.js:23-29)
LoadNotesDone(r) ==
    /\ r.kind = "load" /\ r.phase # "sent"
    /\ reqs' = Take(r)
    /\ notes' = LoadedList(r)
    /\ loading' = LoadingAfterLoad(r)
    /\ lastResp' = Confirmed(LoadedList(r))
    /\ last' = Event(IF r.phase = "ok" THEN "loadOk" ELSE "loadErr", NoId, FALSE, NoId)
    /\ UNCHANGED <<table, nextId, clock, selectedId, editingNote, saving, birth, writes,
                   env, client, failed>>

\* The edit buffer holds edits that no response has confirmed
Dirty == editingNote # Null /\ editingNote # Find(notes, editingNote.id)

\* Faulty variant of SelectedCopy: the title typed into the old buffer is carried over
SelectedCopyKeepingTitle(list, id) ==
    IF editingNote # Null /\ Find(list, id) # Null
    THEN [Find(list, id) EXCEPT !.title = editingNote.title]
    ELSE Find(list, id)

\* `note ? { ...note } : null` for the note found in the list (App.js:104-105)
SelectedCopy(list, id) == Find(list, id)

\* onClick of a list item: the items rendered are the entries of notes
HandleSelect(id) ==
    /\ \E i \in 1..Len(notes) : notes[i].id = id
    /\ selectedId' = id
    /\ editingNote' = SelectedCopy(notes, id)
    /\ last' = Event("select", id, FALSE, IF Dirty THEN editingNote.id ELSE NoId)
    /\ UNCHANGED <<table, nextId, clock, notes, loading, saving, reqs, lastResp, birth, writes,
                   env, client, failed>>

\* The editor form is rendered only when `editingNote && selectedId` (App.js:306)
EditorShown == editingNote # Null /\ selectedId # NoId

\* handleChange, up to the await-free end: onChange of the title or content field
HandleChange(name, value) ==
    /\ EditorShown
    /\ editingNote[name] # value
    /\ editingNote' = [editingNote EXCEPT ![name] = value, !.updated_at = clock]
    /\ last' = Event("change", editingNote.id, FALSE, NoId)
    /\ UNCHANGED <<table, nextId, clock, notes, selectedId, loading, saving, reqs,
                   lastResp, birth, writes,
                   env, client, failed>>

\* handleCreate up to its await: createNote builds the row and sends the insert
HandleCreate ==
    /\ CanSend
    /\ saving' = TRUE
    /\ writes' = writes + 1
    /\ reqs' = Send(Request("create", Row(NoId, <<>>, <<>>, clock, clock),
                                  NoId, clock))
    /\ last' = Event("create", NoId, FALSE, NoId)
    /\ UNCHANGED <<table, nextId, clock, notes, selectedId, editingNote, loading,
                   lastResp, birth,
                   env, client, failed>>

\* handleCreate after its await (App.js:112-117)
HandleCreateDone(r) ==
    /\ r.kind = "create" /\ r.phase # "sent"
    /\ reqs' = Take(r)
    /\ saving' = FALSE
    /\ LET note == CreateNoteResult(r) IN
         IF note # Null
         THEN /\ notes' = Prepend(note, notes)
              /\ selectedId' = note.id
              /\ editingNote' = note
              /\ lastResp' = Confirmed(<<note>>)
              /\ last' = Event("createOk", note.id, FALSE, NoId)
         ELSE /\ UNCHANGED <<notes, selectedId, editingNote, lastResp>>
              /\ last' = Event("createErr", NoId, r.phase = "err", NoId)
    /\ UNCHANGED <<table, nextId, clock, loading, birth, writes,
                   env, client, failed>>

\* Faulty variant of Trimmed: only the title is trimmed
TrimmedTitleOnly(note) ==
    [note EXCEPT !.title = Trim(note.title)]

\* The copy of the edit buffer handleSave sends (App.js:133-137)
Trimmed(note) ==
    [note EXCEPT !.title = Trim(note.title), !.content = Trim(note.content)]

\* handleSave up to its await: onSubmit of the editor form, whose title input
\* is `required` (App.js:318), so the form submits only with a non-empty title
HandleSave ==
    /\ EditorShown
    /\ editingNote.title # <<>>
    /\ CanSend
    /\ saving' = TRUE
    /\ writes' = writes + 1
    /\ reqs' = Send(Request("update", Trimmed(editingNote), NoId, clock))
    /\ last' = Event("save", editingNote.id, FALSE, NoId)
    /\ UNCHANGED <<table, nextId, clock, notes, selectedId, editingNote, loading,
                   lastResp, birth,
                   env, client, failed>>

\* handleSave after its await (App.js:139-143); trimmed is the closure's copy
HandleSaveDone(r) ==
    /\ r.kind = "update" /\ r.phase # "sent"
    /\ reqs' = Take(r)
    /\ saving' = FALSE
    /\ LET updated == UpdateNoteResult(r) IN
         IF updated # Null
         THEN /\ notes' = MapReplace(notes, r.arg.id, updated)
              /\ editingNote' = updated
              /\ lastResp' = Confirmed(<<updated>>)
              /\ last' = Event("saveOk", r.arg.id, FALSE, NoId)
         ELSE /\ UNCHANGED <<notes, editingNote, lastResp>>
              /\ last' = Event(IF r.phase = "err" THEN "saveErr" ELSE "saveNone", r.arg.id,
                              r.phase = "err", NoId)
    /\ UNCHANGED <<table, nextId, clock, selectedId, loading, birth, writes,
                   env, client, failed>>

\* handleDelete up to its await: onClick of the Delete button of the editor
HandleDelete ==
    /\ EditorShown
    /\ selectedId # NoId
    /\ CanSend
    /\ saving' = TRUE
    /\ writes' = writes + 1
    /\ reqs' = Send(Request("delete", Null, selectedId, clock))
    /\ last' = Event("delete", selectedId, FALSE, NoId)
    /\ UNCHANGED <<table, nextId, clock, notes, selectedId, editingNote, loading,
                   lastResp, birth,
                   env, client, failed>>

\* handleDelete after its await (App.js:151-156); r.id is the closure's selectedId
HandleDeleteDone(r) ==
    /\ r.kind = "delete" /\ r.phase # "sent"
    /\ reqs' = Take(r)
    /\ saving' = FALSE
    /\ IF DeleteNoteResult(r)
       THEN /\ notes' = FilterOut(notes, r.id)
            /\ editingNote' = Null
            /\ selectedId' = NoId
            /\ last' = Event("deleteOk", r.id, FALSE, NoId)
       ELSE /\ UNCHANGED <<notes, editingNote, selectedId>>
            /\ last' = Event("deleteErr", r.id, TRUE, NoId)
    /\ UNCHANGED <<table, nextId, clock, loading, lastResp, birth, writes,
                   env, client, failed>>

----------------------------------------------------------------------------

Next ==
    \/ Tick
    \/ \E r \in InFlight : StoreSelect(r)
    \/ \E r \in InFlight : StoreInsert(r)
    \/ \E r \in InFlight : StoreUpdate(r)
    \/ \E r \in InFlight : StoreDelete(r)
    \/ \E r \in InFlight : StoreError(r)
    \/ \E r \in InFlight : LoadNotesDone(r)
    \/ \E id \in Ids : HandleSelect(id)
    \/ \E name \in Fields : \E value \in Texts(name) : HandleChange(name, value)
    \/ HandleCreate
    \/ \E r \in InFlight : HandleCreateDone(r)
    \/ HandleSave
    \/ \E r \in InFlight : HandleSaveDone(r)
    \/ HandleDelete
    \/ \E r \in InFlight : HandleDeleteDone(r)

Spec == Init /\ [][Next]_vars

\* The store answers a request that has been sent
Resolve ==
    \E r \in InFlight :
        StoreSelect(r) \/ StoreInsert(r) \/ StoreUpdate(r) \/ StoreDelete(r) \/ StoreError(r)

\* The event loop runs the continuation of an await whose promise has settled
Continue ==
    \E r \in InFlight :
        LoadNotesDone(r) \/ HandleCreateDone(r) \/ HandleSaveDone(r) \/ HandleDeleteDone(r)

\* Every request sent is answered, with rows or with an error, and every
\* answer is handled; the user is free to act or not.
FairSpec == Spec /\ WF_vars(Resolve) /\ WF_vars(Continue)

\* The evaluation of supabaseClient.js under every environment
InitClient ==
    /\ AppInit
    /\ env \in [EnvNames -> EnvValues]
    /\ client = Unloaded

NextClient == LoadClientModule

SpecClient == InitClient /\ [][NextClient]_vars

TypeOK ==
    /\ nextId - 1 \in Ids \cup {Cardinality(InitTable)}
    /\ clock \in Times
    /\ selectedId \in Ids \cup {NoId}
    /\ loading \in BOOLEAN /\ saving \in BOOLEAN /\ failed \in BOOLEAN
    /\ BagCardinality(reqs) <= MaxWrites + 1

----------------------------------------------------------------------------
(* Properties *)

\* The response r is handled in this step: its continuation runs and takes it
\* out of the requests in flight.
Handles(r) == r.phase # "sent" /\ reqs' = Take(r)

\* The list `after` is the list `before` without its element at index i
Without(before, i) == SubSeq(before, 1, i - 1) \o SubSeq(before, i + 1, Len(before))

\* C1: last response wins: every entry of the displayed list is the row carried
\* by the successful response handled last for the entry's id.
LastResponseWins ==
    \A i \in 1..Len(notes) : notes[i] = lastResp[notes[i].id]

\* C2: the displayed list is in updated_at descending order.
ListOrderedByUpdatedAt ==
    \A i, j \in 1..Len(notes) : i < j => notes[i].updated_at >= notes[j].updated_at

\* C3: when the delete of the selected note X succeeds, exactly one entry, the
\* one with id X, leaves the list, the others keep their order, and the
\* selection and the edit buffer are cleared.
DeleteRemovesExactlyOne ==
    [][\A r \in InFlight :
         (r.kind = "delete" /\ r.phase = "ok" /\ Handles(r) /\ selectedId = r.id)
         => /\ \E i \in 1..Len(notes) :
                 notes[i].id = r.id /\ notes' = Without(notes, i)
            /\ selectedId' = NoId
            /\ editingNote' = Null]_vars

\* C4: witness: a create was handled on an empty list; the list is the one
\* blank record, selected and copied into the edit buffer.
CreateHandledOnEmptyList ==
    /\ last.op = "createOk"
    /\ Len(notes) = 1
    /\ notes[1].id = last.id
    /\ notes[1].title = <<>> /\ notes[1].content = <<>>
    /\ notes[1].created_at = notes[1].updated_at
    /\ selectedId = last.id
    /\ editingNote = notes[1]

\* C4: every row the store inserts is blank with created_at = updated_at, and
\* when the create's response is handled that row becomes the first entry of
\* the list (the others follow unchanged), the selected note and the content
\* of the edit buffer; on an empty list the result is a list of one entry.
CreateYieldsBlankFirstSelected ==
    [][/\ \A row \in table' :
            (\A old \in table : old.id # row.id)
            => row.title = <<>> /\ row.content = <<>> /\ row.created_at = row.updated_at
       /\ \A r \in InFlight :
            (r.kind = "create" /\ r.phase = "ok" /\ Handles(r))
            => /\ Len(r.data) = 1
               /\ r.data[1].title = <<>> /\ r.data[1].content = <<>>
               /\ r.data[1].created_at = r.data[1].updated_at
               /\ Len(notes') = Len(notes) + 1
               /\ notes'[1] = r.data[1]
               /\ \A i \in 1..Len(notes) : notes'[i + 1] = notes[i]
               /\ selectedId' = r.data[1].id
               /\ editingNote' = r.data[1]
               /\ (notes = <<>> => Len(notes') = 1)]_vars

\* C5: witness: a save has just failed with an alert, and the edit buffer
\* still holds the unsaved edits of the selected note.
SaveFailedEditsKept ==
    /\ last.op = "saveErr" /\ last.alert
    /\ ~saving
    /\ selectedId = last.id
    /\ editingNote # Null /\ editingNote.id = last.id
    /\ Dirty

\* C5: handling the failure of a create, save or delete changes no part of the
\* view state but the saving flag, which becomes false.
FailedWriteChangesOnlySaving ==
    [][\A r \in InFlight :
         (r.kind \in {"create", "update", "delete"} /\ r.phase = "err" /\ Handles(r))
         => /\ notes' = notes
            /\ selectedId' = selectedId
            /\ editingNote' = editingNote
            /\ loading' = loading
            /\ saving' = FALSE]_vars

\* C6: when a save of note X succeeds, the entry with id X is replaced in
\* place by the confirmed record, the other entries are unchanged, X is the
\* selected note and the edit buffer is the confirmed record.
SaveReplacesInPlaceAndKeepsSelection ==
    [][\A r \in InFlight :
         (r.kind = "update" /\ r.phase = "ok" /\ r.data # <<>> /\ Handles(r))
         => /\ Len(notes') = Len(notes)
            /\ \A i \in 1..Len(notes) :
                 notes'[i] = IF notes[i].id = r.arg.id THEN r.data[1] ELSE notes[i]
            /\ selectedId' = r.arg.id
            /\ editingNote' = r.data[1]]_vars

\* C7: witness: a save of a note has been served and handled; the row and the
\* list entry carry a later updated_at and the created_at of the insert.
SavedNoteKeepsCreatedAt ==
    /\ last.op = "saveOk"
    /\ \E row \in table :
         /\ row.id = last.id
         /\ row.updated_at > row.created_at
         /\ row.created_at = birth[row.id]
         /\ \E i \in 1..Len(notes) : notes[i] = row

\* C7: the created_at of every row of the store and of every list entry is the
\* one assigned at creation, and the store serving an update adds and removes
\* no id and changes no row but the one with the request's id.
IdAndCreatedAtImmutable ==
    /\ [](/\ \A row \in table : row.created_at = birth[row.id]
          /\ \A i \in 1..Len(notes) : notes[i].created_at = birth[notes[i].id])
    /\ [][\A r \in InFlight :
            (r.kind = "update" /\ r.phase = "sent" /\ CopiesIn(r, reqs') < CopiesIn(r, reqs))
            => /\ {row.id : row \in table'} = {row.id : row \in table}
               /\ \A row \in table : row.id # r.arg.id => row \in table'
               /\ \A row \in table, new \in table' :
                    row.id = new.id => new.created_at = row.created_at]_vars

\* C8: witness: note B was selected while the buffer held unsaved edits of
\* another note A; the buffer is B's entry and A's entry is the confirmed one.
SelectedOtherDiscardingEdits ==
    /\ last.op = "select"
    /\ last.dropped # NoId /\ last.dropped # last.id
    /\ selectedId = last.id
    /\ editingNote = Find(notes, selectedId)
    /\ Find(notes, last.dropped) = lastResp[last.dropped]

\* C8: a step of the page that sends and handles no request (a field change or
\* a selection) leaves the list and the confirmed records as they are; a field
\* change leaves the selection; a selection of another note B makes the edit
\* buffer a copy of B's entry of the list.
EditsStayInBuffer ==
    [][(reqs' = reqs /\ editingNote' # editingNote)
         => /\ notes' = notes
            /\ lastResp' = lastResp
            /\ selectedId' # selectedId
                 => /\ \E i \in 1..Len(notes) : notes[i].id = selectedId'
                    /\ editingNote' = Find(notes, selectedId')
            /\ selectedId' = selectedId
                 => \/ editingNote' = Find(notes, selectedId)
                    \/ /\ editingNote # Null
                       /\ editingNote'.id = editingNote.id
                       /\ editingNote'.created_at = editingNote.created_at]_vars

\* C9: witness: the list request succeeded and its rows are displayed.
LoadedRowsDisplayed ==
    /\ last.op = "loadOk"
    /\ ~loading
    /\ Len(notes) >= 2
    /\ \A i \in 1..Len(notes) : notes[i] = lastResp[notes[i].id]

\* C9: when the list request resolves, the list becomes the returned rows in
\* the returned order after a success and the empty list after a failure, no
\* alert is raised, and loading becomes false.
LoadResolves ==
    [][\A r \in InFlight :
         (r.kind = "load" /\ Handles(r))
         => /\ notes' = IF r.phase = "ok" THEN r.data ELSE <<>>
            /\ last'.alert = FALSE
            /\ loading' = FALSE]_vars

\* C10: witness: the prefixed URL is empty and the unprefixed one is absent,
\* both keys are present, and the module has thrown.
ThrownForMissingUrl ==
    /\ client.state = "thrown"
    /\ env["REACT_APP_SUPABASE_URL"] = Str("")
    /\ env["SUPABASE_URL"] = Undefined
    /\ env["REACT_APP_SUPABASE_ANON_KEY"] = Str("x")

\* C10: once the module has been evaluated, it has thrown, with no client
\* created, exactly when the URL or the key is missing, each being the
\* prefixed variable or, if that is absent or empty, the unprefixed one;
\* otherwise createClient was called once, with these two values.
ClientFailsIffCredentialMissing ==
    client.state # "unloaded" =>
        LET Missing(v) == v = Undefined \/ v = Str("")
            Pick(prefixed, plain) ==
                IF Missing(env[prefixed]) THEN env[plain] ELSE env[prefixed]
            url == Pick("REACT_APP_SUPABASE_URL", "SUPABASE_URL")
            key == Pick("REACT_APP_SUPABASE_ANON_KEY", "SUPABASE_ANON_KEY")
        IN  /\ client.state = "thrown" <=> (Missing(url) \/ Missing(key))
            /\ client.state = "thrown" => client.calls = 0
            /\ client.state = "created"
                 => client.calls = 1 /\ client.url = url /\ client.key = key

\* C11: witness: a save is in flight whose record is not the buffer: the
\* buffer still holds the title and content as typed, with their spaces.
SaveInFlightBufferUntrimmed ==
    /\ last.op = "save"
    /\ editingNote # Null
    /\ \E r \in InFlight :
         /\ r.kind = "update" /\ r.phase = "sent"
         /\ r.arg.id = editingNote.id
         /\ r.arg.title # editingNote.title
         /\ r.arg.content # editingNote.content

\* The text t is the text s without its leading and trailing spaces
Stripped(s, t) ==
    /\ t # <<>> => ~IsSpace(t[1]) /\ ~IsSpace(t[Len(t)])
    /\ \E i \in 0..Len(s) : \E j \in i..Len(s) :
         /\ \A k \in 1..i : IsSpace(s[k])
         /\ t = SubSeq(s, i + 1, j)
         /\ \A k \in (j + 1)..Len(s) : IsSpace(s[k])

\* C11: the record of a save request that a step sends has the edit buffer's
\* id, and its title and content are the buffer's without their leading and
\* trailing spaces; the step that sends it, the store serving it and the
\* handling of its failure or of its answer without a row leave the buffer as
\* it is; the handling of its success makes the buffer the returned row.
SaveSendsTrimmedCopy ==
    [][/\ \A r \in BagToSet(reqs') :
            (r.kind = "update" /\ r.phase = "sent"
                /\ CopiesIn(r, reqs') > CopiesIn(r, reqs))
            => /\ editingNote # Null
               /\ r.arg.id = editingNote.id
               /\ Stripped(editingNote.title, r.arg.title)
               /\ Stripped(editingNote.content, r.arg.content)
               /\ editingNote' = editingNote
       /\ \A r \in InFlight :
            (r.kind = "update" /\ CopiesIn(r, reqs') < CopiesIn(r, reqs))
            => editingNote' = IF r.phase = "ok" /\ r.data # <<>>
                              THEN r.data[1] ELSE editingNote]_vars

\* C12: a non-null edit buffer belongs to the selected note: its id is
\* selectedId, so that Save and Delete act on the same note.
BufferBelongsToSelection ==
    editingNote # Null => editingNote.id = selectedId

\* C14: when the success of a delete of note X is handled while another note
\* Y is selected, only X's entries leave the list, Y stays selected and the
\* edit buffer stays as it is.
DeleteOfOtherKeepsSelection ==
    [][\A r \in InFlight :
         (r.kind = "delete" /\ r.phase = "ok" /\ Handles(r)
             /\ selectedId # NoId /\ selectedId # r.id)
         => /\ notes' = FilterOut(notes, r.id)
            /\ selectedId' = selectedId
            /\ editingNote' = editingNote]_vars

\* C15: the saving flag is true exactly when at least one create, save or
\* delete request is in flight (sent and its response not yet handled).
SavingIffWriteInFlight ==
    saving <=> \E r \in InFlight : r.kind \in {"create", "update", "delete"}

\* C16: a non-null selectedId is the id of an entry of the displayed list.
SelectionInList ==
    selectedId # NoId => \E i \in 1..Len(notes) : notes[i].id = selectedId

\* C17: no two entries of the displayed list have the same id.
ListIdsDistinct ==
    \A i, j \in 1..Len(notes) : notes[i].id = notes[j].id => i = j

\* C13: when no request is in flight and no request so far was answered with
\* an error, the displayed list has exactly the ids of the store's rows and
\* each of its entries is the store's row of that id.
ListAgreesWithStoreWhenIdle ==
    (reqs = EmptyBag /\ ~failed)
    => /\ {notes[i].id : i \in 1..Len(notes)} = {row.id : row \in table}
       /\ \A i \in 1..Len(notes) : notes[i] \in table

\* C18: witness: every request of the run has been answered and handled, the
\* user has sent all the writes of the run, and both flags are false.
AllResolvedFlagsDown ==
    /\ reqs = EmptyBag
    /\ writes = MaxWrites
    /\ ~loading /\ ~saving

\* C18: when every request sent is answered and its answer handled, the
\* loading flag becomes false and stays false, and if from some point on the
\* user sends no further create, save or delete, the saving flag becomes false
\* and stays false.
FlagsSettle ==
    /\ <>[](~loading)
    /\ <>[][writes' = writes]_vars => <>[](~saving)

====
